---- MODULE Spec2Model ----
(***************************************************************************)
(* Turn-based episode controllers of VAGEN-spati:                          *)
(*   SpatiEnv    (src/vagen/env/spati/env.py)      deliberate/submit rounds *)
(*   SokobanEnv  (src/vagen/env_new/sokoban/env.py) multi-action executor   *)
(*                                                                         *)
(* One environment object is modelled per behaviour; `kind` says of which  *)
(* class it is.  Rewards are Python floats in the source; the model counts *)
(* them in tenths (1.0 is 10, 0.1 is 1), so every sum is an exact integer. *)
(* Text is modelled as a sequence of one-character strings, so that the    *)
(* string operations of the source (startswith, replace, strip, upper) are *)
(* computed and not assumed.                                               *)
(***************************************************************************)
EXTENDS Integers, Sequences, FiniteSets, TLC

\* ------------------------------------------------------------------ bounds
\* step calls modelled per episode (since construction or the last reset)
MaxSteps == 5
\* largest max_rounds a configuration is given
MaxRounds == 4
\* largest delay_penalty_after a configuration is given
MaxDelay == 1
\* largest max_actions_per_step a configuration is given
MaxActions == 3

\* ------------------------------------------------------------------ text
\* str.startswith(prefix)
StartsWith(s, prefix) ==
    /\ Len(s) >= Len(prefix)
    /\ SubSeq(s, 1, Len(prefix)) = prefix

\* str.replace(old, ""): every non-overlapping occurrence of old, left to right
RECURSIVE RemoveAll(_, _)
RemoveAll(s, old) ==
    IF s = <<>> THEN <<>>
    ELSE IF StartsWith(s, old) THEN RemoveAll(SubSeq(s, Len(old) + 1, Len(s)), old)
    ELSE <<Head(s)>> \o RemoveAll(Tail(s), old)

RECURSIVE LStrip(_, _)
LStrip(s, chars) ==
    IF s # <<>> /\ Head(s) \in chars THEN LStrip(Tail(s), chars) ELSE s

RECURSIVE RStrip(_, _)
RStrip(s, chars) ==
    IF s # <<>> /\ s[Len(s)] \in chars THEN RStrip(SubSeq(s, 1, Len(s) - 1), chars) ELSE s

\* str.strip(chars)
Strip(s, chars) == RStrip(LStrip(s, chars), chars)

Whitespace == {" "}

\* str.upper(), on the letters the modelled responses use
UpperChar(c) ==
    CASE c = "a" -> "A" [] c = "b" -> "B" [] c = "c" -> "C" [] c = "d" -> "D"
      [] c = "e" -> "E" [] c = "i" -> "I" [] c = "l" -> "L" [] c = "m" -> "M"
      [] c = "p" -> "P" [] c = "r" -> "R" [] c = "s" -> "S" [] c = "t" -> "T"
      [] c = "u" -> "U" [] OTHER -> c

Upper(s) == [i \in 1..Len(s) |-> UpperChar(s[i])]

\* dict.get(key, default)
Get(d, key, default) == IF key \in DOMAIN d THEN d[key] ELSE default

\* ------------------------------------------------------------ responses
\* Action tokens an agent response may carry.
SUBMIT == <<"s","u","b","m","i","t">>
DELIBERATE == <<"d","e","l","i","b","e","r","a","t","e">>

TokSubmitA == SUBMIT \o <<"(","A",")">>
TokSubmitLowerC == SUBMIT \o <<"("," ","c"," ",")">>
TokSubmitE == SUBMIT \o <<"(","E",")">>
TokDeliberate == DELIBERATE \o <<"(",")">>
TokUp == <<"U","p">>
TokDown == <<"D","o","w","n">>
TokLeft == <<"L","e","f","t">>
TokRight == <<"R","i","g","h","t">>
TokBogus == <<"B","o","g","u","s">>

\* A raw response is seen through the tag grammar: the action tokens inside
\* the answer tag, in order (acts), and whether the text matched the grammar
\* exactly (wellformed).
SpatiTokens == {TokSubmitA, TokSubmitLowerC, TokSubmitE, TokDeliberate, TokBogus}

SpatiResponses ==
    { [acts |-> a, wellformed |-> TRUE] :
        a \in {<<>>} \cup { <<t>> : t \in SpatiTokens }
                     \cup { <<TokDeliberate, TokSubmitA>> } }
    \cup
    { [acts |-> a, wellformed |-> FALSE] : a \in {<<>>, <<TokSubmitA>>} }

\* The parser (vagen.env.utils.parse_utils / context_utils): the tokens in
\* left-to-right order, cut to the first max_actions, and the grammar flag.
Parse(response, max_actions) ==
    [ actions |-> SubSeq(response.acts, 1,
                         IF Len(response.acts) > max_actions
                         THEN max_actions ELSE Len(response.acts)),
      format_correct |-> response.wellformed ]

\* dict[key] = value
Put(d, key, value) ==
    [k \in DOMAIN d \cup {key} |-> IF k = key THEN value ELSE d[k]]

\* dict.update(other)
Update(d, other) ==
    [k \in DOMAIN d \cup DOMAIN other |-> IF k \in DOMAIN other THEN other[k] ELSE d[k]]

EmptyDict == [k \in {} |-> FALSE]

\* None is the empty sequence, a value v is <<v>>.
None == <<>>
Some(v) == <<v>>

\* -------------------------------------------------------- configuration
\* SpatiEnvConfig.  max_rounds, delay_penalty_after and per_step_penalty are
\* read by SpatiEnv.step from the configuration object.
SpatiConfigs ==
    { [ max_actions_per_step |-> ma,
        traj_success_reward |-> 10,
        traj_fail_penalty |-> -10,
        format_reward |-> 5,
        max_rounds |-> mr,
        delay_penalty_after |-> dl,
        per_step_penalty |-> 1 ] :
        ma \in {1, 2}, mr \in 1..MaxRounds, dl \in 0..MaxDelay }

\* The jsonl dataset: one sample per line, "answer" a 0-based option index.
SpatiDatasets ==
    { << [answer |-> 0], [answer |-> 2] >> }

Seeds == {None, Some(5)}

\* SokobanConfig: the values SokobanEnv.step reads.
SokobanConfigs ==
    { [ max_actions_per_step |-> ma, format_reward |-> 5 ] : ma \in {1, MaxActions} }

SokobanResponses ==
    { [acts |-> a, wellformed |-> TRUE] :
        a \in { <<>>, <<TokUp>>, <<TokDown>>, <<TokLeft>>, <<TokRight>>, <<TokBogus>>,
                <<TokUp, TokDown>>, <<TokUp, TokRight, TokBogus>>,
                <<TokUp, TokBogus, TokDown>>,
                <<TokRight, TokLeft, TokLeft, TokRight>> } }

\* ---------------------------------------------------------------- state
VARIABLES
    kind,           \* "spati" or "sokoban": the class of the environment object
    config,         \* self.config
    dataset,        \* SpatiEnv.dataset
    idx,            \* SpatiEnv._idx
    sample,         \* SpatiEnv.sample (None before the first reset)
    total_reward,   \* self.total_reward
    reward,         \* self.reward
    done,           \* SpatiEnv.done
    info,           \* SpatiEnv.info
    round_idx,      \* SpatiEnv.round_idx
    answered,       \* SpatiEnv.answered
    room,           \* SokobanEnv.env: the backend's room (player, box, target, count)
    valid_actions,  \* SokobanEnv.valid_actions
    has_total,      \* whether the object has the attribute total_reward
    last,           \* the last call: its name, argument, result, the fields before it
    nsteps,         \* step calls since construction or the last reset
    sum_returned,   \* sum of the rewards step returned since the last reset
    submitted,      \* a step since the last reset was a valid submission
    terminated,     \* a step since the last reset returned done = true
    nterminal,      \* terminal reward components added since the last reset
    scenario        \* steps since the last reset that followed the worked scenario
                    \* (deliberate, deliberate, correct submission); -1 once left

vars == <<kind, config, dataset, idx, sample, total_reward, reward, done, info,
          round_idx, answered, room, valid_actions, has_total, last, nsteps,
          sum_returned, submitted, terminated, nterminal, scenario>>

\* The fields of the object a call may change, as they are before the call.
Fields ==
    [ total_reward |-> total_reward, done |-> done, round_idx |-> round_idx,
      answered |-> answered, terminated |-> terminated ]

history == <<nsteps, sum_returned, submitted, terminated, nterminal, scenario>>

\* the letter each modelled submission token carries
ExpectedChoice ==
    (TokSubmitA :> "A") @@ (TokSubmitLowerC :> "C") @@ (TokSubmitE :> "E")

\* the ground-truth letter of the task instance reset selected
GroundTruthLetter == <<"A", "B", "C", "D">>[dataset[idx + 1].answer + 1]

\* the response is one well-formed submission of the ground-truth letter
CorrectSubmission(response) ==
    /\ response.wellformed
    /\ Len(response.acts) = 1
    /\ response.acts[1] \in DOMAIN ExpectedChoice
    /\ ExpectedChoice[response.acts[1]] = GroundTruthLetter

\* the response is one well-formed deliberation
Deliberation(response) ==
    response = [acts |-> <<TokDeliberate>>, wellformed |-> TRUE]

\* how far the calls since reset follow deliberate, deliberate, correct submission
ScenarioNext(pos, response) ==
    IF pos \in {0, 1} /\ Deliberation(response) THEN pos + 1
    ELSE IF pos = 2 /\ CorrectSubmission(response) THEN 3
    ELSE -1

\* No step since construction or the last reset.
FreshHistory ==
    /\ nsteps = 0
    /\ sum_returned = 0
    /\ submitted = FALSE
    /\ terminated = FALSE
    /\ nterminal = 0
    /\ scenario = 0

\* The parsed turn holds exactly one action, in the expected format, and it
\* begins with the keyword.
SingleAction(rst, keyword) ==
    /\ rst.format_correct
    /\ Len(rst.actions) = 1
    /\ StartsWith(rst.actions[1], keyword)

\* The object is not a SokobanEnv: it has no backend room.
NoRoom == [player |-> <<0, 0>>, box |-> <<0, 0>>, target |-> <<0, 0>>,
           boxes_on_target |-> 0]

spatiOnly == <<dataset, idx, sample, done, info, round_idx, answered>>
sokobanOnly == <<room, valid_actions, has_total>>

\* ------------------------------------------------------------- SpatiEnv
\* SpatiEnv.__init__
SpatiInit ==
    /\ kind = "spati"
    /\ config \in SpatiConfigs
    /\ dataset \in SpatiDatasets
    /\ idx = 0
    /\ sample = None
    /\ total_reward = 0
    /\ reward = 0
    /\ done = FALSE
    /\ info = EmptyDict
    /\ round_idx = 0
    /\ answered = FALSE
    /\ room = NoRoom
    /\ valid_actions = <<>>
    /\ has_total = TRUE
    /\ last = [op |-> "init"]
    /\ FreshHistory

\* reset keeps the instance it already has
SeedIndexKeepsCurrent(seed, n) == idx

\* (seed or 0) % len(self.dataset)
SeedIndex(seed, n) == (IF seed = None THEN 0 ELSE seed[1]) % n

\* reset without line 100 (self.round_idx = 0)
SpatiResetKeepsRound(seed) ==
    /\ kind = "spati"
    /\ idx' = SeedIndex(seed, Len(dataset))
    /\ sample' = Some(dataset[idx' + 1])
    /\ reward' = 0
    /\ total_reward' = 0
    /\ done' = FALSE
    /\ info' = [env_step |-> 0, is_format_rewarded |-> FALSE]
    /\ answered' = FALSE
    /\ nsteps' = 0
    /\ sum_returned' = 0
    /\ submitted' = FALSE
    /\ terminated' = FALSE
    /\ nterminal' = 0
    /\ scenario' = 0
    /\ last' = [op |-> "reset", seed |-> seed, pre |-> Fields, raised |-> FALSE]
    /\ UNCHANGED <<kind, config, dataset, sokobanOnly, round_idx>>

\* SpatiEnv.reset
SpatiReset(seed) ==
    /\ kind = "spati"
    /\ idx' = SeedIndex(seed, Len(dataset))
    /\ sample' = Some(dataset[idx' + 1])
    /\ reward' = 0
    /\ total_reward' = 0
    /\ done' = FALSE
    /\ info' = [env_step |-> 0, is_format_rewarded |-> FALSE]
    /\ round_idx' = 0
    /\ answered' = FALSE
    /\ nsteps' = 0
    /\ sum_returned' = 0
    /\ submitted' = FALSE
    /\ terminated' = FALSE
    /\ nterminal' = 0
    /\ scenario' = 0
    /\ last' = [op |-> "reset", seed |-> seed, pre |-> Fields, raised |-> FALSE]
    /\ UNCHANGED <<kind, config, dataset, sokobanOnly>>

idx_to_letter == <<"A", "B", "C", "D">>

\* the choice is compared as typed, without upper()
SubmitChoiceNoUpper(action) ==
    Strip(Strip(RemoveAll(action, SUBMIT), {"(", ")"}), Whitespace)

\* step, line 129: action.replace("submit", "").strip("()").strip().upper()
SubmitChoice(action) ==
    Upper(Strip(Strip(RemoveAll(action, SUBMIT), {"(", ")"}), Whitespace))

\* the penalty applies from the first round on, whatever the delay
RoundPenaltyAppliesAlways == round_idx >= 0

\* the penalty starts one round late
RoundPenaltyAppliesLate == round_idx > config.delay_penalty_after

\* step, line 142: the round penalty applies from round delay_penalty_after on
RoundPenaltyApplies == round_idx >= config.delay_penalty_after

\* the submission is rewarded but does not end the episode
SubmitOutcomeNotTerminal(choice, gt_letter) ==
    [is_valid |-> TRUE,
     reward |-> IF choice = <<gt_letter>>
                THEN config.traj_success_reward
                ELSE config.traj_fail_penalty,
     done |-> FALSE, answered |-> answered,
     feedback |-> Some("Answer received."), submit |-> 1, penalty |-> 0]

\* step, lines 132-138: the submitted choice against the ground-truth letter
SubmitOutcome(choice, gt_letter) ==
    [is_valid |-> TRUE,
     reward |-> IF choice = <<gt_letter>>
                THEN config.traj_success_reward
                ELSE config.traj_fail_penalty,
     done |-> TRUE, answered |-> TRUE,
     feedback |-> Some("Answer received."), submit |-> 1, penalty |-> 0]

\* What the try block of step (lines 125-149) leaves behind for one action:
\* is_valid, the reward so far, done, answered, the feedback (None when none was
\* set) and which reward lines ran (submit: 133 or 135; penalty: 143).
SpatiDispatch(action) ==
    IF StartsWith(action, SUBMIT)
    THEN IF sample = None
         \* self.sample["answer"] raises TypeError, caught at line 148
         THEN [is_valid |-> FALSE, reward |-> 0, done |-> FALSE, answered |-> answered,
               feedback |-> None, submit |-> 0, penalty |-> 0]
         ELSE SubmitOutcome(SubmitChoice(action), idx_to_letter[sample[1].answer + 1])
    ELSE IF StartsWith(action, DELIBERATE)
    THEN [is_valid |-> TRUE,
          reward |-> IF RoundPenaltyApplies THEN 0 - config.per_step_penalty ELSE 0,
          done |-> FALSE, answered |-> answered,
          feedback |-> Some("Deliberation noted. You may continue or submit your final answer."),
          submit |-> 0, penalty |-> IF RoundPenaltyApplies THEN 1 ELSE 0]
    ELSE [is_valid |-> FALSE, reward |-> 0, done |-> FALSE, answered |-> answered,
          feedback |-> None, submit |-> 0, penalty |-> 0]

\* the format flag of the parsed turn is not read
IsValidTurnIgnoringFormat(rst) == Len(Get(rst, "actions", <<>>)) = 1

\* step, line 122
IsValidTurn(rst) ==
    Len(Get(rst, "actions", <<>>)) = 1 /\ Get(rst, "format_correct", TRUE)

\* the round limit ends the turn one round early
ForcedTerminationEarly(done_, round_) == ~done_ /\ round_ >= config.max_rounds - 1

\* the round limit is compared with > instead of >=
ForcedTerminationLate(done_, round_) == ~done_ /\ round_ > config.max_rounds

\* step, line 159: the round limit ends a turn that did not end by itself
ForcedTermination(done_, round_) == ~done_ /\ round_ >= config.max_rounds

\* the forced termination of an unanswered episode pays nothing
ForcedPenaltyDropped(forced, answered_) == FALSE

\* the forced termination pays the penalty whether or not an answer was given
ForcedPenaltyIgnoringAnswered(forced, answered_) == forced

\* step, lines 162-163: the forced termination of an unanswered episode pays
\* traj_fail_penalty
ForcedPenalty(forced, answered_) == forced /\ ~answered_

InvalidFeedback ==
    "Invalid format. Use <think>...</think> for deliberation or <answer>X</answer> to submit."
MaxRoundsFeedback == "Max rounds reached without an answer. Episode terminated."

\* step, lines 138, 144 and 153: the feedback of the dispatched action
TurnFeedback(info_, d) ==
    IF ~d.is_valid THEN Put(info_, "env_feedback", InvalidFeedback)
    ELSE IF d.feedback # None THEN Put(info_, "env_feedback", d.feedback[1])
    ELSE info_

\* step, line 164
ForcedFeedback(info_, pays) ==
    IF pays THEN Put(info_, "env_feedback", MaxRoundsFeedback) ELSE info_

\* step, line 170: self.info["env_step"] = self.info.get("env_step", 0) + 1
BumpEnvStep(info_) == Put(info_, "env_step", Get(info_, "env_step", 0) + 1)

\* step, lines 157-171: the round count, the round limit and the info of the turn,
\* from the parsed turn rst and what the dispatch d left behind.
SpatiFinish(rst, d, forced, pays) ==
    [ rst |-> rst, is_valid |-> d.is_valid,
      reward |-> d.reward + (IF pays THEN config.traj_fail_penalty ELSE 0),
      done |-> d.done \/ forced,
      answered |-> d.answered,
      round_idx |-> round_idx + 1,
      info |-> Put(BumpEnvStep(Put(ForcedFeedback(TurnFeedback(Update(EmptyDict, rst), d),
                                                  pays),
                                   "is_format_rewarded", d.is_valid)),
                   "done", d.done \/ forced),
      submit |-> d.submit, penalty |-> d.penalty,
      forced |-> IF pays THEN 1 ELSE 0 ]

\* step, lines 157-164
SpatiRoundLimit(rst, d, forced) ==
    SpatiFinish(rst, d, forced, ForcedPenalty(forced, d.answered))

\* step, lines 122-149
SpatiTurn(rst, d) ==
    SpatiRoundLimit(rst, d, ForcedTermination(d.done, round_idx + 1))

InvalidTurn ==
    [is_valid |-> FALSE, reward |-> 0, done |-> FALSE, answered |-> answered,
     feedback |-> None, submit |-> 0, penalty |-> 0]

SpatiParsed(rst) ==
    SpatiTurn(rst, IF IsValidTurn(rst) THEN SpatiDispatch(rst.actions[1]) ELSE InvalidTurn)

\* SpatiEnv.step, lines 111-171: everything step computes from a response.
SpatiStepResult(response) ==
    SpatiParsed(Parse(response, config.max_actions_per_step))

\* the turn reward is assigned, not added
AccumulateDropped(total, r) == r

\* step, line 169
Accumulate(total, r) == total + r

\* SpatiEnv.step.  Before the first reset self.sample is None and _render
\* (line 62) raises TypeError after the fields were updated: nothing is returned.
SpatiStep(response) ==
    /\ kind = "spati"
    /\ nsteps < MaxSteps
    /\ \E r \in {SpatiStepResult(response)}, raised \in {sample = None} :
          /\ reward' = r.reward
          /\ answered' = r.answered
          /\ round_idx' = r.round_idx
          /\ info' = r.info
          /\ done' = r.done
          /\ total_reward' = Accumulate(total_reward, r.reward)
          /\ nsteps' = nsteps + 1
          /\ sum_returned' = IF raised THEN sum_returned ELSE sum_returned + r.reward
          /\ submitted' = (submitted \/ (~raised /\ SingleAction(r.rst, SUBMIT)))
          /\ terminated' = (terminated \/ (~raised /\ r.done))
          /\ nterminal' = nterminal + r.submit + r.forced
          /\ scenario' = IF raised THEN -1 ELSE ScenarioNext(scenario, response)
          /\ last' = IF raised
                     THEN [op |-> "step", response |-> response, pre |-> Fields,
                           raised |-> TRUE]
                     ELSE [op |-> "step", response |-> response, pre |-> Fields,
                           raised |-> FALSE, is_valid |-> r.is_valid,
                           reward |-> r.reward, done |-> r.done,
                           submit |-> r.submit, penalty |-> r.penalty,
                           forced |-> r.forced]
    /\ UNCHANGED <<kind, config, dataset, idx, sample, sokobanOnly>>

\* SpatiEnv.compute_reward: float(self.total_reward), no field is written
SpatiComputeReward == total_reward

\* close marks the episode as over
SpatiCloseEndsEpisode ==
    /\ kind = "spati"
    /\ done' = TRUE
    /\ terminated' = TRUE
    /\ last' = [op |-> "close", pre |-> Fields, raised |-> FALSE]
    /\ UNCHANGED <<kind, config, dataset, idx, sample, info, round_idx, answered,
                   sokobanOnly, total_reward, reward, nsteps, sum_returned,
                   submitted, nterminal, scenario>>

\* SpatiEnv.close
SpatiClose ==
    /\ kind = "spati"
    /\ last' = [op |-> "close", pre |-> Fields, raised |-> FALSE]
    /\ UNCHANGED <<kind, config, spatiOnly, sokobanOnly, total_reward, reward,
                   history>>

\* ----------------------------------------------------------- SokobanEnv
\* The backend (gym_sokoban's SokobanEnv behind self.env) on a small room: the
\* floor cells, walls all around them, one box and one target.
Cells == (1..2) \X (1..3)

ACTION_LOOKUP == (TokUp :> 1) @@ (TokDown :> 2) @@ (TokLeft :> 3) @@ (TokRight :> 4)

\* the backend's change of coordinates for actions 1..4: up, down, left, right
CHANGE_COORDINATES == << <<-1, 0>>, <<1, 0>>, <<0, -1>>, <<0, 1>> >>

Add(p, q) == <<p[1] + q[1], p[2] + q[2]>>

\* the backend's rewards, in tenths: a step, a box pushed on or off its target,
\* all boxes on their targets
GymRewards == [step |-> -1, box_on |-> 10, box_off |-> -10, finished |-> 100]

num_boxes == 1

\* self.env.step(action_int): the room after the push or move, and the reward.
GymStep(rm, action_int) ==
    LET change == CHANGE_COORDINATES[action_int]
        new_position == Add(rm.player, change)
        new_box_position == Add(new_position, change)
        can_push == new_position = rm.box /\ new_box_position \in Cells
        can_move == new_position \in Cells /\ new_position # rm.box
        box1 == IF can_push THEN new_box_position ELSE rm.box
        player1 == IF can_push \/ can_move THEN new_position ELSE rm.player
        current == IF box1 = rm.target THEN 1 ELSE 0
        r == GymRewards.step
             + (IF current > rm.boxes_on_target THEN GymRewards.box_on
                ELSE IF current < rm.boxes_on_target THEN GymRewards.box_off ELSE 0)
             + (IF current = num_boxes THEN GymRewards.finished ELSE 0)
    IN [ room |-> [player |-> player1, box |-> box1, target |-> rm.target,
                   boxes_on_target |-> current],
         step_reward |-> r ]

\* SokobanEnv._success
Success(rm) == rm.boxes_on_target = num_boxes

\* generate_room: the rooms it may draw
Layouts ==
    << [player |-> <<1, 1>>, box |-> <<1, 2>>, target |-> <<1, 3>>, boxes_on_target |-> 0],
       [player |-> <<2, 1>>, box |-> <<1, 2>>, target |-> <<1, 3>>, boxes_on_target |-> 0] >>

\* generate_room under set_seed(seed) raises RuntimeError for some seeds
GenerationFails(seed) == seed = Some(5)

\* reset, line 52: abs(hash(str(seed))) % (2 ** 32): one fixed value per process
NextSeed(seed) == IF seed = None THEN None ELSE Some(seed[1] + 2)

\* The rooms reset(seed) may end with: a seeded draw is a function of the seed,
\* an unseeded one is any room; a failed draw is retried with NextSeed.
RECURSIVE RoomsOf(_)
RoomsOf(seed) ==
    IF seed = None THEN { Layouts[i] : i \in 1..Len(Layouts) }
    ELSE IF GenerationFails(seed) THEN RoomsOf(NextSeed(seed))
    ELSE { Layouts[(seed[1] % Len(Layouts)) + 1] }

\* SokobanEnv.__init__: the backend is built with a room of its own; the object
\* has no total_reward before the first reset.
SokobanInit ==
    /\ kind = "sokoban"
    /\ config \in SokobanConfigs
    /\ dataset = <<>>
    /\ idx = 0
    /\ sample = None
    /\ total_reward = 0
    /\ reward = 0
    /\ done = FALSE
    /\ info = EmptyDict
    /\ round_idx = 0
    /\ answered = FALSE
    /\ room \in RoomsOf(None)
    /\ valid_actions = <<>>
    /\ has_total = FALSE
    /\ last = [op |-> "init"]
    /\ FreshHistory

\* SokobanEnv.reset
SokobanReset(seed) ==
    /\ kind = "sokoban"
    /\ room' \in RoomsOf(seed)
    /\ total_reward' = 0
    /\ has_total' = TRUE
    /\ nsteps' = 0
    /\ sum_returned' = 0
    /\ submitted' = FALSE
    /\ terminated' = FALSE
    /\ nterminal' = 0
    /\ scenario' = 0
    /\ last' = [op |-> "reset", seed |-> seed, pre |-> Fields, raised |-> FALSE]
    /\ UNCHANGED <<kind, config, spatiOnly, reward, valid_actions>>

\* the loop body without line 91: success is never written to the metrics
AppliedSuccessUnmarked(st, action, g) ==
    [ room |-> g.room,
      reward |-> st.reward + g.step_reward,
      done |-> Success(g.room),
      action_is_valid |-> st.action_is_valid,
      success |-> st.success,
      valid_actions |-> Append(st.valid_actions, action),
      moved |-> st.moved \/ g.room.player # st.room.player ]

\* One pass of the loop body of step for a recognized action (lines 85-91).
\* st holds the room, the turn's reward, done, the two metrics the loop writes,
\* valid_actions, and whether any backend call has moved the player.
Applied(st, action, g) ==
    [ room |-> g.room,
      reward |-> st.reward + g.step_reward,
      done |-> Success(g.room),
      action_is_valid |-> st.action_is_valid,
      success |-> IF Success(g.room) THEN TRUE ELSE st.success,
      valid_actions |-> Append(st.valid_actions, action),
      moved |-> st.moved \/ g.room.player # st.room.player ]

ApplyAction(st, action) == Applied(st, action, GymStep(st.room, ACTION_LOOKUP[action]))

\* The loop of step (lines 83-95) from the i-th action on; AfterAction is the
\* break of line 92.
RECURSIVE ExecuteFrom(_, _, _)

\* the loop goes on after success
AfterActionNoBreak(action_list, i, st) == ExecuteFrom(action_list, i + 1, st)

\* lines 90-92: success ends the loop
AfterAction(action_list, i, st) ==
    IF st.done THEN st ELSE ExecuteFrom(action_list, i + 1, st)

\* an unrecognized token is skipped (continue instead of break)
UnrecognizedSkipped(action_list, i, st) ==
    ExecuteFrom(action_list, i + 1, [st EXCEPT !.action_is_valid = FALSE])

\* lines 93-95: an unrecognized token ends the loop
Unrecognized(action_list, i, st) == [st EXCEPT !.action_is_valid = FALSE]

ExecuteFrom(action_list, i, st) ==
    IF i > Len(action_list) THEN st
    ELSE IF action_list[i] \in DOMAIN ACTION_LOOKUP
    THEN AfterAction(action_list, i, ApplyAction(st, action_list[i]))
    ELSE Unrecognized(action_list, i, st)

\* step, line 99: not np.array_equal(prev_player_position, self.env.player_position)
ActionIsEffective(prev_player_position, player_position) ==
    prev_player_position # player_position

\* the format bonus is paid whatever the turn's validity
FormatBonusAlways(action_is_valid) == config.format_reward

\* step, lines 96-97
FormatBonus(action_is_valid) == IF action_is_valid THEN config.format_reward ELSE 0

\* step, lines 96-101: the turn's result from the parsed turn and the loop's end
SokobanTurn(rst, st) ==
    [ room |-> st.room, reward |-> st.reward + FormatBonus(st.action_is_valid),
      done |-> st.done, valid_actions |-> st.valid_actions, moved |-> st.moved,
      info |-> Put(Update(EmptyDict, rst), "metrics",
                   [ action_is_valid |-> st.action_is_valid,
                     action_is_effective |-> ActionIsEffective(room.player, st.room.player),
                     success |-> st.success ]) ]

\* step, lines 69-82: the turn before its first action
TurnStart(action_list) ==
    [ room |-> room, reward |-> 0, done |-> FALSE,
      action_is_valid |-> action_list # <<>>, success |-> FALSE,
      valid_actions |-> <<>>, moved |-> FALSE ]

SokobanParsed(rst) ==
    SokobanTurn(rst, ExecuteFrom(rst.actions, 1, TurnStart(rst.actions)))

\* the configured max_actions_per_step is not handed to the parser
SokobanStepResultUnbounded(response) ==
    SokobanParsed(Parse(response, Len(response.acts)))

\* SokobanEnv.step, lines 62-99: everything step computes from a response.
SokobanStepResult(response) ==
    SokobanParsed(Parse(response, config.max_actions_per_step))

\* SokobanEnv.step.  Before the first reset the object has no total_reward and
\* line 100 raises AttributeError after the backend has acted.
SokobanStep(response) ==
    /\ kind = "sokoban"
    /\ nsteps < MaxSteps
    /\ \E r \in {SokobanStepResult(response)} :
          /\ room' = r.room
          /\ reward' = r.reward
          /\ valid_actions' = r.valid_actions
          /\ total_reward' = IF has_total THEN Accumulate(total_reward, r.reward)
                             ELSE total_reward
          /\ nsteps' = nsteps + 1
          /\ sum_returned' = IF has_total THEN sum_returned + r.reward ELSE sum_returned
          /\ terminated' = (terminated \/ (has_total /\ r.done))
          /\ UNCHANGED <<submitted, nterminal, scenario>>
          /\ last' = IF has_total
                     THEN [op |-> "step", response |-> response, pre |-> Fields,
                           raised |-> FALSE, reward |-> r.reward, done |-> r.done,
                           info |-> r.info, prev_room |-> room, moved |-> r.moved]
                     ELSE [op |-> "step", response |-> response, pre |-> Fields,
                           raised |-> TRUE]
    /\ UNCHANGED <<kind, config, spatiOnly, has_total>>

\* SokobanEnv.compute_reward
SokobanComputeReward == total_reward

\* SokobanEnv.close: self.env.close() releases the backend's viewer
SokobanClose ==
    /\ kind = "sokoban"
    /\ last' = [op |-> "close", pre |-> Fields, raised |-> FALSE]
    /\ UNCHANGED <<kind, config, spatiOnly, sokobanOnly, total_reward, reward,
                   history>>

Init == SpatiInit \/ SokobanInit

Next ==
    \/ \E seed \in Seeds : SpatiReset(seed)
    \/ \E response \in SpatiResponses : SpatiStep(response)
    \/ SpatiClose
    \/ \E seed \in Seeds : SokobanReset(seed)
    \/ \E response \in SokobanResponses : SokobanStep(response)
    \/ SokobanClose

Spec == Init /\ [][Next]_vars

\* ---------------------------------------------------------------- claims
\* reset has been called on the object
Started == IF kind = "spati" THEN sample # None ELSE has_total

\* the last call was a step that returned
LastStep == last.op = "step" /\ ~last.raised

ComputeReward == IF kind = "spati" THEN SpatiComputeReward ELSE SokobanComputeReward

\* the parsed turn of the last step
ParsedLast == Parse(last.response, config.max_actions_per_step)

\* the round penalty of a turn whose penalty line ran n times
RoundPart(n) == 0 - n * config.per_step_penalty

\* C1: after a reset, total_reward (what compute_reward returns) is the sum of
\* the rewards the step calls returned since, and it is zero right after reset,
\* for both controllers.
C1_TotalRewardIsSumOfReturned ==
    Started => /\ ComputeReward = sum_returned
               /\ (last.op = "reset" => ComputeReward = 0)

C1_Witness ==
    /\ kind = "spati"
    /\ LastStep
    /\ nsteps >= 3
    /\ last.reward # 0
    /\ last.pre.total_reward # 0
    /\ ComputeReward = last.pre.total_reward + last.reward

\* C2: with max_rounds = R, an episode without a valid submission returns
\* done = false on steps 1..R-1 and done = true on the R-th step, and
\* traj_fail_penalty is part of the reward of the R-th step only.
C2_RoundLimitEndsUnsubmittedEpisode ==
    (kind = "spati" /\ LastStep /\ ~submitted /\ nsteps <= config.max_rounds) =>
        /\ last.done = (nsteps = config.max_rounds)
        /\ last.forced = (IF nsteps = config.max_rounds THEN 1 ELSE 0)
        /\ nterminal = (IF nsteps = config.max_rounds THEN 1 ELSE 0)
        /\ last.reward = RoundPart(last.penalty)
                         + (IF nsteps = config.max_rounds
                            THEN config.traj_fail_penalty ELSE 0)

C2_Witness ==
    /\ kind = "spati"
    /\ LastStep
    /\ ~submitted
    /\ config.max_rounds >= 3
    /\ nsteps = config.max_rounds
    /\ last.done
    /\ last.forced = 1
    /\ last.pre.done = FALSE

\* C3: once a step has returned done = true, a further step without a reset
\* adds nothing to total_reward.
C3_NoRewardAfterTermination ==
    (LastStep /\ last.pre.terminated) => total_reward = last.pre.total_reward

\* C4: the terminal reward component is added exactly once per episode, on the
\* step where done becomes true; a valid submission never also gets the forced
\* round-limit penalty, and a step that returns done = false gets no terminal
\* component.
C4_TerminalComponentOnce ==
    (kind = "spati" /\ LastStep) =>
        /\ last.submit + last.forced <= 1
        /\ (~last.done => last.submit + last.forced = 0)
        /\ (SingleAction(ParsedLast, SUBMIT) => last.submit = 1 /\ last.forced = 0)
        /\ (~last.pre.terminated =>
              /\ last.done <=> (last.submit + last.forced = 1)
              /\ nterminal = (IF last.done THEN 1 ELSE 0))
        /\ (last.forced = 1 =>
              last.reward = RoundPart(last.penalty) + config.traj_fail_penalty)
        /\ (last.submit = 1 =>
              last.reward \in {config.traj_success_reward, config.traj_fail_penalty})
        /\ (last.submit + last.forced = 0 => last.reward = RoundPart(last.penalty))

C4_Witness ==
    /\ kind = "spati"
    /\ LastStep
    /\ SingleAction(ParsedLast, SUBMIT)
    /\ config.max_rounds >= 2
    /\ nsteps = config.max_rounds
    /\ ~last.pre.terminated
    /\ last.done
    /\ nterminal = 1
    /\ last.reward = config.traj_fail_penalty

\* C5: a format-correct turn whose single action is a submission ends the
\* episode at any round: done = true, answered = true, and the reward is
\* traj_success_reward when the choice is the ground-truth letter and
\* traj_fail_penalty otherwise.
C5_SubmissionEndsEpisode ==
    (kind = "spati" /\ LastStep /\ SingleAction(ParsedLast, SUBMIT)) =>
        /\ last.done
        /\ done
        /\ answered
        /\ last.reward = (IF ExpectedChoice[ParsedLast.actions[1]] = GroundTruthLetter
                          THEN config.traj_success_reward
                          ELSE config.traj_fail_penalty)

C5_Witness ==
    /\ kind = "spati"
    /\ LastStep
    /\ SingleAction(ParsedLast, SUBMIT)
    /\ ParsedLast.actions[1] = TokSubmitLowerC
    /\ nsteps = 2
    /\ config.max_rounds = 4
    /\ last.done
    /\ answered
    /\ last.reward = config.traj_success_reward

\* C6: a valid deliberation subtracts per_round_penalty iff the round index at
\* the start of the step (the steps already taken since reset) is at least
\* penalty_delay_rounds; when the step is not the max_rounds-th it returns
\* done = false, leaves answered false, and its reward is 0 or the penalty.
C6_DeliberationPenalty ==
    (kind = "spati" /\ LastStep /\ SingleAction(ParsedLast, DELIBERATE)) =>
        /\ last.pre.round_idx = nsteps - 1
        /\ (last.penalty = 1) <=> (nsteps - 1 >= config.delay_penalty_after)
        /\ last.submit = 0
        /\ (~last.pre.terminated /\ nsteps # config.max_rounds =>
              /\ ~last.done
              /\ ~answered
              /\ last.reward = (IF nsteps - 1 >= config.delay_penalty_after
                                THEN 0 - config.per_step_penalty ELSE 0))

C6_Witness ==
    /\ kind = "spati"
    /\ LastStep
    /\ SingleAction(ParsedLast, DELIBERATE)
    /\ config.delay_penalty_after = 1
    /\ nsteps = 2
    /\ config.max_rounds > 2
    /\ last.penalty = 1
    /\ last.reward = 0 - config.per_step_penalty
    /\ last.pre.total_reward = 0
    /\ ~last.done

\* the parsed turn is invalid: wrong format, zero or several actions, or one
\* action that is neither a submission nor a deliberation
InvalidParsed(rst) ==
    \/ ~rst.format_correct
    \/ Len(rst.actions) # 1
    \/ /\ ~StartsWith(rst.actions[1], SUBMIT)
       /\ ~StartsWith(rst.actions[1], DELIBERATE)

C8_RoundIndexCountsSteps ==
    kind = "spati" =>
        /\ round_idx = nsteps
        /\ (last.op = "reset" => round_idx = 0)
        /\ (last.op = "step" => round_idx = last.pre.round_idx + 1)

C8_Witness ==
    /\ kind = "spati"
    /\ LastStep
    /\ InvalidParsed(ParsedLast)
    /\ submitted
    /\ nsteps = 3
    /\ round_idx = 3

\* the backend's vocabulary
Recognized == {TokUp, TokDown, TokLeft, TokRight}

\* the room after the backend has applied the first n actions of the list
RECURSIVE RunPrefix(_, _, _)
RunPrefix(rm, action_list, n) ==
    IF n = 0 THEN rm
    ELSE GymStep(RunPrefix(rm, action_list, n - 1), ACTION_LOOKUP[action_list[n]]).room

\* the first k actions of the list are recognized
AllRecognized(action_list, k) == \A j \in 1..k : action_list[j] \in Recognized

\* position k holds the first unrecognized token, and none of the actions before
\* it left the backend in its success condition
FirstUnrecognizedAt(rm, action_list, k) ==
    /\ k \in 1..Len(action_list)
    /\ action_list[k] \notin Recognized
    /\ AllRecognized(action_list, k - 1)
    /\ \A j \in 1..(k - 1) : ~Success(RunPrefix(rm, action_list, j))

\* C9: when the first unrecognized token is at position k and no earlier action
\* reached the terminal state, the backend is invoked exactly k-1 times, in list
\* order, for the tokens before it, no later token is applied, and the turn
\* reports action_is_valid = false.
C9_UnrecognizedTokenStopsTurn ==
    (kind = "sokoban" /\ LastStep) =>
        \A k \in 1..Len(ParsedLast.actions) :
            FirstUnrecognizedAt(last.prev_room, ParsedLast.actions, k) =>
                /\ valid_actions = SubSeq(ParsedLast.actions, 1, k - 1)
                /\ room = RunPrefix(last.prev_room, ParsedLast.actions, k - 1)
                /\ last.info.metrics.action_is_valid = FALSE

C9_Witness ==
    /\ kind = "sokoban"
    /\ LastStep
    /\ ParsedLast.actions = <<TokUp, TokBogus, TokDown>>
    /\ FirstUnrecognizedAt(last.prev_room, ParsedLast.actions, 2)
    /\ valid_actions = <<TokUp>>
    /\ room.player # last.prev_room.player
    /\ last.info.metrics.action_is_valid = FALSE

\* the j-th action is the first after which the backend is in its success
\* condition, and every action up to it is recognized
FirstSuccessAt(rm, action_list, j) ==
    /\ j \in 1..Len(action_list)
    /\ AllRecognized(action_list, j)
    /\ Success(RunPrefix(rm, action_list, j))
    /\ \A i \in 1..(j - 1) : ~Success(RunPrefix(rm, action_list, i))

\* C10: when the backend reports success after an executed action, execution
\* stops right after it: no later action is applied, even an unrecognized one,
\* and the step returns done = true, success = true and action_is_valid as it was.
C10_SuccessStopsTurn ==
    (kind = "sokoban" /\ LastStep) =>
        \A j \in 1..Len(ParsedLast.actions) :
            FirstSuccessAt(last.prev_room, ParsedLast.actions, j) =>
                /\ valid_actions = SubSeq(ParsedLast.actions, 1, j)
                /\ room = RunPrefix(last.prev_room, ParsedLast.actions, j)
                /\ last.done
                /\ last.info.metrics.success
                /\ last.info.metrics.action_is_valid

C10_Witness ==
    /\ kind = "sokoban"
    /\ LastStep
    /\ ParsedLast.actions = <<TokUp, TokRight, TokBogus>>
    /\ FirstSuccessAt(last.prev_room, ParsedLast.actions, 2)
    /\ valid_actions = <<TokUp, TokRight>>
    /\ last.done
    /\ last.info.metrics.action_is_valid

\* the backend's step rewards for the first n actions of the list, summed
RECURSIVE PrefixReward(_, _, _)
PrefixReward(rm, action_list, n) ==
    IF n = 0 THEN 0
    ELSE PrefixReward(rm, action_list, n - 1)
         + GymStep(RunPrefix(rm, action_list, n - 1), ACTION_LOOKUP[action_list[n]]).step_reward

\* the turn stops after n executed actions: the list ends there, or the next
\* token is unrecognized, or the n-th action left the backend in success
StopsAfter(rm, action_list, n) ==
    /\ n \in 0..Len(action_list)
    /\ AllRecognized(action_list, n)
    /\ \A i \in 1..(n - 1) : ~Success(RunPrefix(rm, action_list, i))
    /\ \/ n = Len(action_list)
       \/ n >= 1 /\ Success(RunPrefix(rm, action_list, n))
       \/ action_list[n + 1] \notin Recognized

\* the list is non-empty and the turn did not reach an unrecognized token
ValidAtEnd(rm, action_list, n) ==
    /\ action_list # <<>>
    /\ \/ n = Len(action_list)
       \/ n >= 1 /\ Success(RunPrefix(rm, action_list, n))

\* C11: the turn reward of the multi-action executor is the sum of the backend
\* step rewards of the actions executed, plus format_reward iff action_is_valid
\* is true at the end of the turn; for [Up, Bogus, Down] it is the step reward of
\* Up alone.
C11_TurnRewardIsStepsPlusFormat ==
    (kind = "sokoban" /\ LastStep) =>
        \A n \in 0..Len(ParsedLast.actions) :
            StopsAfter(last.prev_room, ParsedLast.actions, n) =>
                /\ Len(valid_actions) = n
                /\ last.info.metrics.action_is_valid
                     = ValidAtEnd(last.prev_room, ParsedLast.actions, n)
                /\ last.reward
                     = PrefixReward(last.prev_room, ParsedLast.actions, n)
                       + (IF ValidAtEnd(last.prev_room, ParsedLast.actions, n)
                          THEN config.format_reward ELSE 0)

C11_Witness ==
    /\ kind = "sokoban"
    /\ LastStep
    /\ ParsedLast.actions = <<TokUp, TokBogus, TokDown>>
    /\ StopsAfter(last.prev_room, ParsedLast.actions, 1)
    /\ last.reward = GymStep(last.prev_room, ACTION_LOOKUP[TokUp]).step_reward
    /\ last.reward = GymRewards.step
    /\ ~last.info.metrics.action_is_valid

\* C12: action_is_effective is true iff at least one executed action of the turn
\* changed the player's position, also when the last position equals the start
\* position.
C12_EffectiveIffSomeActionMoved ==
    (kind = "sokoban" /\ LastStep) =>
        (last.info.metrics.action_is_effective <=> last.moved)

\* C13: one step of the multi-action executor invokes the backend at most
\* max_actions_per_step times, also when the response lists more actions.
C13_AtMostMaxActionsExecuted ==
    (kind = "sokoban" /\ LastStep) =>
        Len(valid_actions) <= config.max_actions_per_step

C13_Witness ==
    /\ kind = "sokoban"
    /\ LastStep
    /\ Len(last.response.acts) > config.max_actions_per_step
    /\ config.max_actions_per_step > 1
    /\ Len(valid_actions) = config.max_actions_per_step

\* what a reset establishes: the episode fields and the task instance
EpisodeState == <<round_idx, total_reward, terminated, answered, done, idx, sample, room>>

\* the dataset index SpatiEnv selects for each seed; no seed selects index 0
SeededIndex == [s \in Seeds |-> IF s = None THEN 0 ELSE 1]

\* the room SokobanEnv draws for a given seed
SeededRoom == [s \in Seeds \ {None} |-> Layouts[2]]

\* C14 (as stated): reset yields round_index 0, total_reward 0, terminated and
\* answered false and a task instance that depends only on the seed, a missing
\* seed included, so two consecutive resets with the same seed yield identical
\* initial state.
C14_ResetDependsOnlyOnSeed ==
    [][ last'.op = "reset" =>
          /\ round_idx' = 0 /\ total_reward' = 0
          /\ ~terminated' /\ ~answered'
          /\ (last.op = "reset" /\ last.seed = last'.seed)
                => EpisodeState' = EpisodeState ]_vars

\* C14 (amended): after reset(seed), whatever calls came before, round_index = 0,
\* total_reward = 0, terminated = false and answered = false; in SpatiEnv the task
\* instance is a function of the seed and a missing seed selects instance 0; in
\* SokobanEnv the room is a function of the seed only when a seed is given.
C14_ResetYieldsSeededInitialState ==
    (last.op = "reset") =>
        /\ round_idx = 0 /\ total_reward = 0
        /\ ~terminated /\ ~answered
        /\ kind = "spati" =>
              /\ ~done
              /\ idx = SeededIndex[last.seed]
              /\ sample = Some(dataset[SeededIndex[last.seed] + 1])
        /\ kind = "sokoban" =>
              /\ ~Success(room)
              /\ last.seed # None => room = SeededRoom[last.seed]

C14_Witness ==
    /\ kind = "spati"
    /\ last.op = "reset"
    /\ last.seed = Some(5)
    /\ last.pre.terminated
    /\ last.pre.total_reward # 0
    /\ last.pre.round_idx > 0
    /\ idx = 1

\* C15: TERMINATED is final in the round-based decision loop: once a step has
\* returned done = true, the terminated flag stays true and every later step
\* before the next reset also reports done = true.
C15_TerminatedIsFinal ==
    (kind = "spati" /\ LastStep /\ last.pre.terminated) =>
        /\ last.done
        /\ done

\* the configuration of the worked scenario, rewards in tenths
ScenarioConfig ==
    /\ kind = "spati"
    /\ config.max_rounds = 4
    /\ config.delay_penalty_after = 1
    /\ config.per_step_penalty = 1
    /\ config.traj_success_reward = 10

\* C16: with max_rounds = 4, penalty_delay_rounds = 1, per_round_penalty = 0.1 and
\* traj_success_reward = 1.0, the calls reset, deliberate, deliberate, correct
\* submission return rewards 0.0, -0.1, 1.0, leave round_index at 1, 2, 3 and done
\* at false, false, true, and total_reward ends at 0.9.
C16_WorkedScenario ==
    (ScenarioConfig /\ Started /\ scenario >= 1) =>
        /\ nsteps = scenario
        /\ round_idx = scenario
        /\ total_reward = <<0, -1, 9>>[scenario]
        /\ done = (scenario = 3)
        /\ LastStep =>
              /\ last.reward = <<0, -1, 10>>[scenario]
              /\ last.done = (scenario = 3)

C16_Witness ==
    /\ ScenarioConfig
    /\ LastStep
    /\ scenario = 3
    /\ CorrectSubmission(last.response)
    /\ last.reward = 10
    /\ total_reward = 9
    /\ round_idx = 3
    /\ done

\* the round-penalty component of the last turn: a valid deliberation made at a
\* round index of at least delay_penalty_after
RoundComponent ==
    IF /\ SingleAction(ParsedLast, DELIBERATE)
       /\ last.pre.round_idx >= config.delay_penalty_after
    THEN 0 - config.per_step_penalty
    ELSE 0

\* the terminal component of the last turn: the outcome of a valid submission,
\* or the fail penalty when the turn reaches max_rounds with no answer given
TerminalComponent ==
    IF SingleAction(ParsedLast, SUBMIT)
    THEN IF ExpectedChoice[ParsedLast.actions[1]] = GroundTruthLetter
         THEN config.traj_success_reward
         ELSE config.traj_fail_penalty
    ELSE IF last.pre.round_idx + 1 >= config.max_rounds /\ ~last.pre.answered
         THEN config.traj_fail_penalty
         ELSE 0

\* C17 (as stated): the reward of every turn of the round-based decision loop is
\* format_reward when the turn is valid, plus the round-penalty component, plus
\* the terminal component.
C17_RewardIncludesFormatReward ==
    (kind = "spati" /\ LastStep) =>
        last.reward = (IF last.is_valid THEN config.format_reward ELSE 0)
                      + RoundComponent + TerminalComponent

\* C17 (amended): the reward of every turn of the round-based decision loop is
\* the round-penalty component plus the terminal component, each when it
\* applies; format_reward is not part of it, a valid turn is only reported with
\* is_format_rewarded = true.
C17_RewardIsPenaltyPlusTerminal ==
    (kind = "spati" /\ LastStep) =>
        /\ last.reward = RoundComponent + TerminalComponent
        /\ info["is_format_rewarded"] = last.is_valid

C17_Witness ==
    /\ kind = "spati"
    /\ LastStep
    /\ last.is_valid
    /\ SingleAction(ParsedLast, DELIBERATE)
    /\ RoundComponent = 0 - config.per_step_penalty
    /\ TerminalComponent = config.traj_fail_penalty
    /\ last.reward = config.traj_fail_penalty - config.per_step_penalty
    /\ config.format_reward # 0

\* C18: in the round-based decision loop, done = true implies answered = true or
\* round_index >= max_rounds, for the done flag the object holds and for the one
\* the last step returned.
C18_DoneImpliesAnsweredOrRoundLimit ==
    (kind = "spati") =>
        /\ done => (answered \/ round_idx >= config.max_rounds)
        /\ (LastStep /\ last.done) => (answered \/ round_idx >= config.max_rounds)

C18_Witness ==
    /\ kind = "spati"
    /\ LastStep
    /\ ~last.pre.terminated
    /\ last.done
    /\ done
    /\ ~answered
    /\ round_idx = config.max_rounds
    /\ config.max_rounds > 1

\* the keys the result of a step must carry in info
RequiredInfoKeys ==
    {"action_is_valid", "action_is_effective", "success", "is_format_rewarded",
     "env_feedback", "env_step"}

\* the info mapping the last step returned
ReturnedInfo == IF kind = "spati" THEN info ELSE last.info

\* C19: the info mapping returned by every step, of either controller, contains
\* the keys action_is_valid, action_is_effective, success, is_format_rewarded,
\* env_feedback and env_step.
C19_InfoCarriesRequiredKeys ==
    LastStep => RequiredInfoKeys \subseteq DOMAIN ReturnedInfo

\* C20: close raises no error and changes none of round_index, total_reward,
\* terminated and answered, in any state: before the first reset, between steps,
\* after termination, and when called again.
C20_CloseChangesNothing ==
    (last.op = "close") =>
        /\ ~last.raised
        /\ round_idx = last.pre.round_idx
        /\ total_reward = last.pre.total_reward
        /\ done = last.pre.done
        /\ terminated = last.pre.terminated
        /\ answered = last.pre.answered

C20_Witness ==
    /\ kind = "spati"
    /\ last.op = "close"
    /\ nsteps >= 1
    /\ ~done
    /\ ~terminated
    /\ round_idx >= 1
    /\ total_reward # 0

\* the last step is the first one of an episode configured with max_rounds = 1
SingleRoundFirstStep ==
    /\ kind = "spati"
    /\ config.max_rounds = 1
    /\ Started
    /\ LastStep
    /\ nsteps = 1

\* the last step ended the episode by the round limit, unanswered, and paid the
\* unanswered traj_fail_penalty
ForcedUnanswered ==
    /\ last.done
    /\ ~answered
    /\ last.forced = 1
    /\ last.reward = config.traj_fail_penalty + RoundPart(last.penalty)

\* C21 (as stated): with max_rounds = 1 the forced round-limit termination is
\* unreachable: no step reachable from reset ends the episode with answered =
\* false and the unanswered traj_fail_penalty applied.
C21_ForcedBranchUnreachable ==
    SingleRoundFirstStep => ~ForcedUnanswered

\* C21 (amended): with max_rounds = 1 the first step after reset always ends the
\* episode; it does so by the forced round-limit termination, with answered =
\* false and the unanswered traj_fail_penalty applied, exactly when the turn is
\* not a valid submission.
C21_ForcedBranchIffNoSubmission ==
    SingleRoundFirstStep =>
        /\ last.done
        /\ done
        /\ ForcedUnanswered <=> ~SingleAction(ParsedLast, SUBMIT)
        /\ SingleAction(ParsedLast, SUBMIT) => (answered /\ last.forced = 0)

C21_Witness ==
    /\ SingleRoundFirstStep
    /\ InvalidParsed(ParsedLast)
    /\ ForcedUnanswered
    /\ total_reward = config.traj_fail_penalty

\* C22: env_step in info is a counter of the episode's steps: 0 in the state set
\* by reset and N in the info returned by the N-th step since reset.
C22_EnvStepCountsSteps ==
    (kind = "spati" /\ Started) =>
        /\ last.op = "reset" => info["env_step"] = 0
        /\ LastStep => info["env_step"] = nsteps

\* the turn executes nothing: no action, or an unrecognized first token
NothingToExecute(action_list) ==
    \/ action_list = <<>>
    \/ action_list[1] \notin Recognized

\* C23: in the multi-action executor the returned done flag equals the success
\* metric of the turn, both true only if an action executed in this turn left
\* the backend in its success condition; a turn with an empty action list or an
\* unrecognized first token returns done = false, reward 0, success = false and
\* invokes the backend zero times.
C23_DoneEqualsSuccessMetric ==
    (kind = "sokoban" /\ LastStep) =>
        /\ last.done = last.info.metrics.success
        /\ last.done =>
              /\ Len(valid_actions) >= 1
              /\ Success(RunPrefix(last.prev_room, ParsedLast.actions, Len(valid_actions)))
              /\ Success(room)
        /\ NothingToExecute(ParsedLast.actions) =>
              /\ ~last.done
              /\ last.reward = 0
              /\ ~last.info.metrics.success
              /\ valid_actions = <<>>
              /\ room = last.prev_room

C23_Witness ==
    /\ kind = "sokoban"
    /\ LastStep
    /\ last.done
    /\ last.info.metrics.success
    /\ ~Success(last.prev_room)
    /\ Len(valid_actions) >= 2

\* the choice of a submission token lies outside the options A-D
ChoiceOutsideOptions(rst) ==
    /\ SingleAction(rst, SUBMIT)
    /\ ExpectedChoice[rst.actions[1]] \notin {"A", "B", "C", "D"}

\* C24: a format-correct single submission whose choice lies outside A-D is
\* handled as an invalid turn: the episode stays in AWAITING_INPUT, answered
\* stays false and no terminal reward is assigned unless it is the max_rounds-th
\* step.
C24_UnknownChoiceIsInvalid ==
    (kind = "spati" /\ Started /\ LastStep /\ ~last.pre.terminated
                    /\ ChoiceOutsideOptions(ParsedLast)) =>
        /\ ~last.is_valid
        /\ ~answered
        /\ nsteps < config.max_rounds => (~last.done /\ last.reward = 0)

====
